---- MODULE Spec2Model ----
(***************************************************************************)
(* Model of yoyodyne's evaluation core: evaluators.py (EvalItem,           *)
(* Evaluator.evaluate, get_eval_item, finalize_predictions), indexes.py    *)
(* (SymbolMap, IndexNoFeatures, IndexFeatures, BaseIndex.write and read), *)
(* special.py, and of models/base.py the validation step, the epoch end   *)
(* and the loss functions of get_loss_func.                                *)
(*                                                                         *)
(* Specifications: SpecFin (finalize_predictions), SpecEval (one call of   *)
(* evaluate), SpecIndex (index construction, write, read, symbol lookup),  *)
(* SpecAlg (EvalItem arithmetic), SpecEpoch (a validation epoch), SpecLoss *)
(* (plain and smoothed loss), SpecCalls (callers running evaluate line by  *)
(* line on the same two tensors, their steps interleaved).                 *)
(*                                                                         *)
(* Tensors are sequences: a B x T index tensor is a sequence of B rows,    *)
(* each a sequence of T integers.  TLA+ sequences start at 1, the source   *)
(* counts from 0: source position p of a row x is x[p + 1].                *)
(***************************************************************************)
EXTENDS Integers, Sequences, FiniteSets, TLC

\* ------------------------------------------------------------------ bounds
\* Largest number of elements B * T of an index tensor (predictions, golds).
MaxCells == 6
\* Largest number of symbols of a vocabulary handed to an index.
MaxVocab == 2

\* Largest num_correct and num_predicted of an EvalItem given as input.
MaxCount == 2

\* Largest number of validation steps of an epoch.
MaxSteps == 3

\* Largest number of positions B * T of a batch handed to the loss.
MaxLossCells == 2

\* Largest number of calls of evaluate one caller makes on the same tensors.
MaxCalls == 2

VARIABLES
    pc,           \* position of the caller: which call has returned
    predictions,  \* the B x T index tensor finalize_predictions works on, in place
    end_idx,      \* argument end_idx
    pad_idx,      \* argument pad_idx
    raised,       \* "none", or the name of the exception the last call raised
    x0,           \* the tensor as it was handed to the first call
    out1,         \* the tensor as the first call returned it
    scores,       \* evaluate: argument predictions, a B x vocab_size x T score tensor
    golds,        \* evaluate: argument golds, a B x T' index tensor
    item,         \* evaluate: <<the EvalItem returned>>, or <<>> when none was
    message,      \* the message of the exception raised, cut at its digits
    acc,          \* the EvalItem total the caller folds the returned items into
    source_vocabulary,    \* constructor argument of the index
    features_vocabulary,  \* constructor argument of IndexFeatures
    target_vocabulary,    \* constructor argument of the index
    index,        \* vars() of the index object built, <<>> before construction
    outputs,      \* validation_step_outputs: what the steps done returned
    epoch_eval,   \* <<the EvalItem(s) computed from outputs>>, <<>> before
    val_accuracy, \* the outcome of the accuracy request, <<>> before
    rows_seen,    \* number of rows handed to the evaluate calls that returned
    dataset,      \* self.dataset of the model: <<>> for None, else <<a dataset>>
    file,         \* the pickled index at the index path, <<>> before write
    loaded,       \* vars() of the index object read back, <<>> before read
    probe,        \* the argument of the last SymbolMap.symbol call
    found,        \* the outcome of the last SymbolMap.symbol call, <<>> before
    logp,         \* loss: argument predictions, B x output_size x T log-probabilities
    tgt,          \* loss: argument target, a B x T index tensor
    smoothing,    \* label_smoothing as <<numerator, denominator>>, <<>> for None
    loss,         \* the losses computed from logp and target, <<>> before
    heap,         \* the live tensor storages: identifier -> contents
    frames        \* per caller: the frame of its running call, its outcomes

finVars == <<pc, predictions, end_idx, pad_idx, raised, x0, out1>>

evalVars == <<scores, golds, item, message, acc>>

indexVars == <<source_vocabulary, features_vocabulary, target_vocabulary, index>>

epochVars == <<outputs, epoch_eval, val_accuracy, rows_seen, dataset>>

storeVars == <<file, loaded, probe, found>>

lossVars == <<logp, tgt, smoothing, loss>>

callVars == <<heap, frames>>

laterVars == <<epochVars, storeVars, lossVars>>

vars == <<pc, predictions, end_idx, pad_idx, raised, x0, out1,
          scores, golds, item, message, acc,
          source_vocabulary, features_vocabulary, target_vocabulary, index,
          outputs, epoch_eval, val_accuracy, rows_seen, dataset,
          file, loaded, probe, found,
          logp, tgt, smoothing, loss,
          heap, frames>>

\* The parts of the state a specification does not use stay as constructed.
EpochIdle ==
    /\ outputs = <<>>
    /\ epoch_eval = <<>>
    /\ val_accuracy = <<>>
    /\ rows_seen = 0
    /\ dataset = <<>>

StoreIdle ==
    /\ file = <<>>
    /\ loaded = <<>>
    /\ probe = 0
    /\ found = <<>>

LossIdle ==
    /\ logp = <<>>
    /\ tgt = <<>>
    /\ smoothing = <<>>
    /\ loss = <<>>

CallIdle ==
    /\ heap = <<>>
    /\ frames = <<>>

\* ------------------------------------------------------ special.py, indexes.py
PAD == "<P>"
START == "<S>"
END == "<E>"
UNK == "<UNK>"
MASK == "<MASK>"
TASK1 == "<TASK1>"
TASK2 == "<TASK2>"

SPECIAL == <<UNK, PAD, START, END, MASK, TASK1, TASK2>>

\* Python's None, the default of SymbolMap.index: no index equals it.
None == -1

Max(S) == CHOOSE m \in S : \A n \in S : n <= m

\* {c: i for i, c in enumerate(l)}: a later occurrence of a key replaces
\* the earlier one.
Enumerate(l) ==
    [c \in {l[k] : k \in 1..Len(l)} |-> Max({k - 1 : k \in {j \in 1..Len(l) : l[j] = c}})]

\* SymbolMap.__init__ with the reserved prefix put after the vocabulary.
SymbolMapMutAppend(vocabulary) ==
    [index2symbol |-> vocabulary \o SPECIAL,
     symbol2index |-> Enumerate(vocabulary \o SPECIAL)]

\* SymbolMap.__init__.
SymbolMap(vocabulary) ==
    [index2symbol |-> SPECIAL \o vocabulary,
     symbol2index |-> Enumerate(SPECIAL \o vocabulary)]

\* SymbolMap.__len__.
SymbolMapLen(m) == Len(m.index2symbol)

\* SymbolMap.index: self._symbol2index.get(symbol, unk_idx).
SymbolMapIndex(m, symbol, unk_idx) ==
    IF symbol \in DOMAIN m.symbol2index THEN m.symbol2index[symbol] ELSE unk_idx

\* A lookup that is off by one position, wrapping at the end.
SymbolMapSymbolMutShift(m, i) ==
    [raised |-> "none",
     symbol |-> m.index2symbol[((i + 1 + Len(m.index2symbol))
                                   % Len(m.index2symbol)) + 1]]

\* SymbolMap.symbol: self._index2symbol[index], the indexing of a Python
\* list: 0 <= index < len is the position, -len <= index < 0 counts from the
\* end, anything else raises IndexError.
SymbolMapSymbol(m, i) ==
    LET n == Len(m.index2symbol)
    IN  IF 0 <= i /\ i < n
        THEN [raised |-> "none", symbol |-> m.index2symbol[i + 1]]
        ELSE IF (0 - n) <= i /\ i < 0
        THEN [raised |-> "none", symbol |-> m.index2symbol[n + i + 1]]
        ELSE [raised |-> "IndexError", symbol |-> ""]

\* IndexNoFeatures.__init__: the attributes of the object.
IndexNoFeatures(source, target) ==
    [source_map |-> SymbolMap(source), target_map |-> SymbolMap(target)]

\* IndexNoFeatures.source_vocab_size, target_vocab_size.
source_vocab_size(ix) == SymbolMapLen(ix.source_map)
target_vocab_size(ix) == SymbolMapLen(ix.target_map)

\* The reserved index accessors of IndexNoFeatures.
PadIdx(ix) == SymbolMapIndex(ix.source_map, PAD, None)
StartIdx(ix) == SymbolMapIndex(ix.source_map, START, None)
EndIdx(ix) == SymbolMapIndex(ix.source_map, END, None)
UnkIdx(ix) == SymbolMapIndex(ix.source_map, UNK, None)
MaskIdx(ix) == SymbolMapIndex(ix.source_map, MASK, None)
Task1Idx(ix) == SymbolMapIndex(ix.source_map, TASK1, None)
Task2Idx(ix) == SymbolMapIndex(ix.source_map, TASK2, None)

\* IndexFeatures.__init__: super().__init__ on the concatenated vocabularies,
\* then features_idx = self.source_vocab_size, read from the map just built.
IndexFeatures(source, features, target) ==
    LET base == IndexNoFeatures(source \o features, target)
    IN  [source_map |-> base.source_map, target_map |-> base.target_map,
         features_idx |-> source_vocab_size(base)]

\* IndexFeatures.features_vocab_size.
features_vocab_size(ix) == SymbolMapLen(ix.source_map) - ix.features_idx

\* ------------------------------------------------ BaseIndex.write and read
\* The keys of the dict built from list l, in insertion order: the order of
\* first occurrence.
RECURSIVE Keys(_)
Keys(l) ==
    IF l = <<>>
    THEN <<>>
    ELSE LET front == Keys(SubSeq(l, 1, Len(l) - 1))
             last == l[Len(l)]
         IN  IF \E k \in 1..Len(front) : front[k] = last
             THEN front
             ELSE Append(front, last)

\* The pickle of a SymbolMap: its class and the two attributes of its
\* __dict__, the list as it is and the dict as its items in insertion order.
DumpSymbolMap(m) ==
    LET ks == Keys(m.index2symbol)
    IN  [kind |-> "SymbolMap",
         index2symbol |-> m.index2symbol,
         symbol2index |-> [k \in 1..Len(ks) |-> <<ks[k], m.symbol2index[ks[k]]>>]]

\* The dict rebuilt from pickled items: a later item replaces an earlier one
\* with the same key.
DictOf(items) ==
    [c \in {items[k][1] : k \in 1..Len(items)} |->
        items[Max({k \in 1..Len(items) : items[k][1] = c})][2]]

\* The SymbolMap rebuilt from its pickle.
LoadSymbolMap(e) ==
    [index2symbol |-> e.index2symbol, symbol2index |-> DictOf(e.symbol2index)]

\* The attribute names of an index object in the order __init__ sets them.
AttributeOrder == <<"source_map", "target_map", "features_idx">>

\* pickle.dump(vars(self), sink): the attributes of the object as a list of
\* (name, pickled value) items.  The class of the object is not part of it.
PickleDump(ix) ==
    LET names == SelectSeq(AttributeOrder, LAMBDA k : k \in DOMAIN ix)
    IN  [k \in 1..Len(names) |->
            <<names[k],
              IF names[k] = "features_idx"
              THEN [kind |-> "int", value |-> ix[names[k]]]
              ELSE DumpSymbolMap(ix[names[k]])>>]

\* A load that loses the integer attributes.
PickleLoadMutNoInt(blob) ==
    LET kept == SelectSeq(blob, LAMBDA it : it[2].kind # "int")
    IN  [c \in {kept[k][1] : k \in 1..Len(kept)} |->
            LoadSymbolMap(
                kept[CHOOSE k \in 1..Len(kept) : kept[k][1] = c][2])]

\* pickle.load(source): the dictionary of attribute values.
PickleLoad(blob) ==
    [c \in {blob[k][1] : k \in 1..Len(blob)} |->
        LET e == blob[CHOOSE k \in 1..Len(blob) : blob[k][1] = c][2]
        IN  IF e.kind = "int" THEN e.value ELSE LoadSymbolMap(e)]

\* BaseIndex.read called on class cls: cls.__new__(cls), then setattr for
\* every item of the loaded dictionary.
BaseIndexRead(cls, blob) == [cls |-> cls, vars |-> PickleLoad(blob)]

\* The classes read can be called on.
IndexClasses == {"BaseIndex", "IndexNoFeatures", "IndexFeatures"}

\* The outcome of reading a property defined by IndexNoFeatures.
Property(cls, v) ==
    IF cls \in {"IndexNoFeatures", "IndexFeatures"}
    THEN [raised |-> "none", value |-> v]
    ELSE [raised |-> "AttributeError", value |-> None]

\* What a caller can observe of an object of class cls with attributes ix:
\* every accessor, and index() and symbol() of both maps for the given keys
\* and for every position of the maps.
Observe(cls, ix, keys) ==
    [source_vocab_size |-> Property(cls, source_vocab_size(ix)),
     target_vocab_size |-> Property(cls, target_vocab_size(ix)),
     pad_idx |-> Property(cls, PadIdx(ix)),
     start_idx |-> Property(cls, StartIdx(ix)),
     end_idx |-> Property(cls, EndIdx(ix)),
     unk_idx |-> Property(cls, UnkIdx(ix)),
     mask_idx |-> Property(cls, MaskIdx(ix)),
     task1_idx |-> Property(cls, Task1Idx(ix)),
     task2_idx |-> Property(cls, Task2Idx(ix)),
     features_idx |->
        IF "features_idx" \in DOMAIN ix
        THEN [raised |-> "none", value |-> ix.features_idx]
        ELSE [raised |-> "AttributeError", value |-> None],
     features_vocab_size |->
        IF cls = "IndexFeatures" /\ "features_idx" \in DOMAIN ix
        THEN [raised |-> "none", value |-> features_vocab_size(ix)]
        ELSE [raised |-> "AttributeError", value |-> None],
     source_index |-> [c \in keys |-> SymbolMapIndex(ix.source_map, c, None)],
     target_index |-> [c \in keys |-> SymbolMapIndex(ix.target_map, c, None)],
     source_symbol |-> [i \in 0..(SymbolMapLen(ix.source_map) - 1) |->
                          SymbolMapSymbol(ix.source_map, i)],
     target_symbol |-> [i \in 0..(SymbolMapLen(ix.target_map) - 1) |->
                          SymbolMapSymbol(ix.target_map, i)]]

\* ------------------------------------------------------------ tensor helpers
\* Symbol indices handed to finalize_predictions: one for the end marker,
\* one for pad, one for anything else, in any assignment.
Syms == {0, 1, 2}

\* All rows of length n over the symbol set S.
Rows(S, n) == [1..n -> S]

\* The shapes <<B, T>> of the tensors of at most n elements.
Shapes(n) == {sh \in (1..n) \X (1..n) : sh[1] * sh[2] <= n}

\* All B x T tensors over S of at most n elements.
Tensors(S, n) == UNION {[1..sh[1] -> Rows(S, sh[2])] : sh \in Shapes(n)}

Min(S) == CHOOSE m \in S : \A n \in S : m <= n

\* (x == end_idx).nonzero(): the 0-based positions of x that hold end_idx.
Nonzero(x, e) == {p \in 0..(Len(x) - 1) : x[p + 1] = e}

\* chars, *_ = torch.split(x, n): the first chunk of x cut in chunks of n.
SplitFirst(x, n) == SubSeq(x, 1, IF n < Len(x) THEN n ELSE Len(x))

\* pads without the assignment pads[0] = end_idx.
PadsMutNoEnd(n, e, p) ==
    [raised |-> "none", pads |-> [k \in 1..n |-> p]]

\* pads = torch.ones(n) * pad_idx; pads[0] = end_idx.  The assignment to
\* pads[0] raises IndexError when pads is empty.
Pads(n, e, p) ==
    IF n = 0
    THEN [raised |-> "IndexError", pads |-> <<>>]
    ELSE [raised |-> "none", pads |-> [k \in 1..n |-> IF k = 1 THEN e ELSE p]]

\* EOS = EOS[0]; EOS[EOS == 0] = 1: the first position of nonzero(), 0 made 1.
PatchedEOS(x, e) == IF Min(Nonzero(x, e)) = 0 THEN 1 ELSE Min(Nonzero(x, e))

\* One iteration of the loop of finalize_predictions on row x: the row that
\* is written back to predictions[i], or the exception raised.
FinalizeRow(x, e, p) ==
    IF Nonzero(x, e) # {} /\ Min(Nonzero(x, e)) < Len(x)
    THEN LET EOS   == PatchedEOS(x, e)
             chars == SplitFirst(x, EOS)
             pads  == Pads(Len(x) - Len(chars), e, p)
         IN  IF pads.raised # "none"
             THEN [raised |-> pads.raised, row |-> x]
             ELSE [raised |-> "none", row |-> chars \o pads.pads]
    ELSE [raised |-> "none", row |-> x]

\* for i, x in enumerate(predictions): rows i..B, updating the tensor in
\* place; an exception leaves the rows already written as they are.
RECURSIVE FinalizeLoop(_, _, _, _)
FinalizeLoop(preds, i, e, p) ==
    IF i > Len(preds)
    THEN [raised |-> "none", predictions |-> preds]
    ELSE LET r == FinalizeRow(preds[i], e, p)
         IN  IF r.raised # "none"
             THEN [raised |-> r.raised, predictions |-> preds]
             ELSE FinalizeLoop([preds EXCEPT ![i] = r.row], i + 1, e, p)

\* Evaluator.finalize_predictions.
finalize_predictions(preds, e, p) ==
    IF Len(preds) = 1
    THEN [raised |-> "none", predictions |-> preds]
    ELSE FinalizeLoop(preds, 1, e, p)

\* ------------------------------------------------ specification SpecFin
\* A caller holds a prediction tensor and calls finalize_predictions on it,
\* then calls it again on what the first call returned.
InitFin ==
    /\ pc = "start"
    /\ predictions \in Tensors(Syms, MaxCells)
    /\ end_idx \in Syms
    /\ pad_idx \in Syms
    /\ raised = "none"
    /\ x0 = predictions
    /\ out1 = <<>>
    /\ scores = <<>>
    /\ golds = <<>>
    /\ item = <<>>
    /\ message = <<>>
    /\ acc = [num_correct |-> 0, num_predicted |-> 0]
    /\ source_vocabulary = <<>>
    /\ features_vocabulary = <<>>
    /\ target_vocabulary = <<>>
    /\ index = <<>>
    /\ EpochIdle /\ StoreIdle /\ LossIdle /\ CallIdle

\* The first call of finalize_predictions.
Finalize ==
    /\ pc = "start"
    /\ LET r == finalize_predictions(predictions, end_idx, pad_idx)
       IN  /\ predictions' = r.predictions
           /\ raised' = r.raised
           /\ out1' = IF r.raised = "none" THEN r.predictions ELSE <<>>
    /\ pc' = "once"
    /\ UNCHANGED <<end_idx, pad_idx, x0>>
    /\ UNCHANGED <<evalVars, indexVars, laterVars>>
    /\ UNCHANGED callVars

\* The second call: the caller only has a tensor to pass when the first call
\* returned one.
FinalizeAgain ==
    /\ pc = "once"
    /\ raised = "none"
    /\ LET r == finalize_predictions(predictions, end_idx, pad_idx)
       IN  /\ predictions' = r.predictions
           /\ raised' = r.raised
    /\ pc' = "twice"
    /\ UNCHANGED <<end_idx, pad_idx, x0, out1>>
    /\ UNCHANGED <<evalVars, indexVars, laterVars>>
    /\ UNCHANGED callVars

NextFin == Finalize \/ FinalizeAgain

SpecFin == InitFin /\ [][NextFin]_vars

\* ------------------------------------------------------- EvalItem, evaluate
\* EvalItem(num_correct, num_predicted).
EvalItem(nc, np) == [num_correct |-> nc, num_predicted |-> np]

\* An addition that keeps the left operand's num_predicted.
EvalItemAddMutLeft(a, b) ==
    EvalItem(a.num_correct + b.num_correct, a.num_predicted)

\* EvalItem.__add__.
EvalItemAdd(a, b) ==
    EvalItem(a.num_correct + b.num_correct, a.num_predicted + b.num_predicted)

\* EvalItem.__radd__: start_val + self, start_val an integer.
EvalItemRAdd(a, start_val) ==
    EvalItem(a.num_correct + start_val, a.num_predicted + start_val)

\* A quotient that answers 0/0-style pairs instead of raising.
AccuracyMutSentinel(it) ==
    [raised |-> "none", value |-> <<it.num_correct, it.num_predicted>>]

\* EvalItem.accuracy: num_correct / num_predicted on Python ints. Division
\* by zero raises ZeroDivisionError; otherwise the quotient is kept exact as
\* <<numerator, denominator>>.
Accuracy(it) ==
    IF it.num_predicted = 0
    THEN [raised |-> "ZeroDivisionError", value |-> <<>>]
    ELSE [raised |-> "none", value |-> <<it.num_correct, it.num_predicted>>]

\* predictions.transpose(1, 2) of one batch element: vocab_size x T -> T x vocab_size.
Transpose(m) ==
    [t \in 1..Len(m[1]) |-> [v \in 1..Len(m) |-> m[v][t]]]

\* torch.max(row, dim): the 0-based index of the first maximal value of row.
ArgMax(row) ==
    CHOOSE v \in 0..(Len(row) - 1) :
        \A w \in 0..(Len(row) - 1) :
            \/ row[w + 1] < row[v + 1]
            \/ (row[w + 1] = row[v + 1] /\ v <= w)

\* torch.max(t, dim=2) of a B x T x vocab_size tensor: the largest value of
\* every row of scores and the 0-based index it is first found at.
TorchMax(t) ==
    [values  |-> [b \in 1..Len(t) |->
                    [k \in 1..Len(t[b]) |->
                        Max({t[b][k][v] : v \in 1..Len(t[b][k])})]],
     indices |-> [b \in 1..Len(t) |->
                    [k \in 1..Len(t[b]) |-> ArgMax(t[b][k])]]]

\* The length reconciliation with functional.pad left at its default value 0.
ReconcileMutPadZero(preds, gs, p) ==
    LET T == Len(preds[1])
        G == Len(gs[1])
    IN  IF T > G
        THEN [i \in 1..Len(preds) |-> SubSeq(preds[i], 1, G)]
        ELSE IF T < G
        THEN [i \in 1..Len(preds) |-> preds[i] \o [k \in 1..(G - T) |-> 0]]
        ELSE preds

\* The length reconciliation of get_eval_item: predictions[:, :golds.size(1)]
\* when longer, functional.pad(predictions, (0, n), "constant", pad_idx) when
\* shorter.
Reconcile(preds, gs, p) ==
    LET T == Len(preds[1])
        G == Len(gs[1])
    IN  IF T > G
        THEN [i \in 1..Len(preds) |-> SubSeq(preds[i], 1, G)]
        ELSE IF T < G
        THEN [i \in 1..Len(preds) |-> preds[i] \o [k \in 1..(G - T) |-> p]]
        ELSE preds

\* An item that counts matching cells instead of matching rows.
get_eval_itemMutCells(preds, gs, p) ==
    LET r == Reconcile(preds, gs, p)
        corr == {c \in (1..Len(r)) \X (1..Len(gs[1])) :
                    r[c[1]][c[2]] = gs[c[1]][c[2]]}
    IN  EvalItem(Cardinality(corr), Len(r))

\* Evaluator.get_eval_item.
get_eval_item(preds, gs, p) ==
    LET r == Reconcile(preds, gs, p)
        corr == {i \in 1..Len(r) : r[i] = gs[i]}
    IN  EvalItem(Cardinality(corr), Len(r))

\* The message of the Error raised on a batch size mismatch.  The two string
\* literals carry no f prefix, so the braces are never substituted; the text
\* is cut at its digits so that a decimal numeral it contains is an element.
ErrorMessage(predsSize, goldsSize) ==
    <<"Preds batch size ({predictions.size(", "0",
      ")}) and golds batch size ({golds.size(", "0", ")} do not match">>

\* ------------------------------------------------------ tensors and storages
\* A tensor is a reference to a storage.  transpose returns a second
\* reference to the storage of its argument, torch.max allocates a storage
\* for each tensor it returns, and an indexed assignment writes into the
\* storage the assigned tensor refers to.  A heap maps the identifiers of
\* the live storages to their contents.

\* A tensor over the whole of storage id, in the layout it was allocated in.
Ref(id) == [storage |-> id, transposed |-> FALSE]

\* A local name before its assignment.
Unbound == [storage |-> 0, transposed |-> FALSE]

\* The contents seen through a reference: as stored, or with dimensions 1
\* and 2 exchanged through the view transpose(1, 2) returns.
Contents(h, ref) ==
    IF ref.transposed
    THEN [b \in 1..Len(h[ref.storage]) |-> Transpose(h[ref.storage][b])]
    ELSE h[ref.storage]

\* An allocation that hands out the oldest live storage again.
AllocMutReuse(h) == Min(DOMAIN h)

\* The identifier of a newly allocated storage: one that no live storage has.
Alloc(h) == Min((1..(Cardinality(DOMAIN h) + 1)) \ DOMAIN h)

\* The heap with contents t in storage id.
Store(h, id, t) == [k \in DOMAIN h \cup {id} |-> IF k = id THEN t ELSE h[k]]

\* The heap without the storages ids.
Free(h, ids) == [k \in DOMAIN h \ ids |-> h[k]]

\* The storages a frame's local names refer to.
Referenced(f) == {f.predictions.storage, f.golds.storage, f.vals.storage}

\* The frame of a call evaluate(predictions, golds, end_idx, pad_idx) at its
\* first line: the two parameters are bound to the caller's tensors.
NewFrame(predictions_ref, golds_ref) ==
    [pc |-> "check", predictions |-> predictions_ref, golds |-> golds_ref,
     vals |-> Unbound, i |-> 0, raised |-> "none", message |-> <<>>,
     item |-> <<>>]

\* if predictions.size(0) != golds.size(0): raise Error(...).
CheckSizes(h, f) ==
    IF Len(Contents(h, f.predictions)) # Len(Contents(h, f.golds))
    THEN [heap |-> h,
          frame |-> [f EXCEPT !.pc = "raised", !.raised = "Error",
                              !.message =
                                  ErrorMessage(Len(Contents(h, f.predictions)),
                                               Len(Contents(h, f.golds)))]]
    ELSE [heap |-> h, frame |-> [f EXCEPT !.pc = "transpose"]]

\* predictions = predictions.transpose(1, 2): the name is rebound to a view
\* of the same storage.
TransposeView(h, f) ==
    [heap |-> h,
     frame |-> [f EXCEPT !.pc = "max",
                         !.predictions.transposed = ~f.predictions.transposed]]

\* vals, predictions = torch.max(predictions, dim=2): two new tensors; the
\* name predictions is rebound to the index tensor.
MaxOverVocab(h, f) ==
    LET m  == TorchMax(Contents(h, f.predictions))
        v  == Alloc(h)
        h1 == Store(h, v, m.values)
        n  == Alloc(h1)
    IN  [heap |-> Store(h1, n, m.indices),
         frame |-> [f EXCEPT !.pc = "finalize", !.vals = Ref(v),
                             !.predictions = Ref(n)]]

\* finalize_predictions is entered: if predictions.size(0) == 1 it returns
\* its argument, else the loop starts at row 0.
EnterFinalize(h, f) ==
    [heap |-> h,
     frame |-> [f EXCEPT !.i = 0,
                         !.pc = IF Len(Contents(h, f.predictions)) = 1
                                THEN "get_eval_item" ELSE "loop"]]

\* One iteration of for i, x in enumerate(predictions), or the end of the
\* loop: predictions[i] = torch.cat((chars, pads)) writes row i of the
\* storage predictions refers to.
LoopIteration(h, f, e, p) ==
    LET preds == Contents(h, f.predictions)
    IN  IF f.i >= Len(preds)
        THEN [heap |-> h, frame |-> [f EXCEPT !.pc = "get_eval_item"]]
        ELSE LET r == FinalizeRow(preds[f.i + 1], e, p)
             IN  IF r.raised # "none"
                 THEN [heap |-> h,
                       frame |-> [f EXCEPT !.pc = "raised",
                                           !.raised = r.raised]]
                 ELSE [heap |-> [h EXCEPT ![f.predictions.storage][f.i + 1] =
                                              r.row],
                       frame |-> [f EXCEPT !.i = f.i + 1]]

\* return self.get_eval_item(predictions, golds, pad_idx).  The slice, the
\* padded tensor and the comparison result are locals of get_eval_item and
\* gone when it returns.
ReturnEvalItem(h, f, p) ==
    [heap |-> h,
     frame |-> [f EXCEPT !.pc = "returned",
                         !.item = <<get_eval_item(Contents(h, f.predictions),
                                                  Contents(h, f.golds), p)>>]]

\* The next line of a running call of Evaluator.evaluate.
Step(h, f, e, p) ==
    CASE f.pc = "check" -> CheckSizes(h, f)
      [] f.pc = "transpose" -> TransposeView(h, f)
      [] f.pc = "max" -> MaxOverVocab(h, f)
      [] f.pc = "finalize" -> EnterFinalize(h, f)
      [] f.pc = "loop" -> LoopIteration(h, f, e, p)
      [] f.pc = "get_eval_item" -> ReturnEvalItem(h, f, p)

\* A call run without interruption until it reaches one of the lines stops.
RECURSIVE RunUntil(_, _, _, _)
RunUntil(s, e, p, stops) ==
    IF s.frame.pc \in stops
    THEN s
    ELSE RunUntil(Step(s.heap, s.frame, e, p), e, p, stops)

\* The caller's two tensors: the first storages of its heap.
ScoresRef == Ref(1)
GoldsRef == Ref(2)

\* What a call run alone leaves: am is the call when it enters
\* finalize_predictions (or has raised before), fin the call at its end.
EvaluateOutcome(am, fin) ==
    [raised |-> fin.frame.raised,
     message |-> fin.frame.message,
     argmax |-> IF am.frame.pc = "finalize"
                THEN Contents(am.heap, am.frame.predictions) ELSE <<>>,
     predictions |-> IF am.frame.pc = "finalize"
                     THEN Contents(fin.heap, fin.frame.predictions) ELSE <<>>,
     item |-> fin.frame.item,
     scores |-> fin.heap[ScoresRef.storage],
     golds |-> fin.heap[GoldsRef.storage]]

\* Evaluator.evaluate run alone on a heap that holds the caller's two
\* tensors: what is raised or returned, the index tensor before and after
\* finalize_predictions, and the caller's two tensors after the call.
evaluate(sc, gs, e, p) ==
    LET s0 == [heap |-> <<sc, gs>>, frame |-> NewFrame(ScoresRef, GoldsRef)]
    IN  CHOOSE r \in
            UNION {{EvaluateOutcome(am, fin) :
                       fin \in {RunUntil(am, e, p, {"returned", "raised"})}} :
                   am \in {RunUntil(s0, e, p,
                                    {"finalize", "returned", "raised"})}} :
            TRUE

\* ------------------------------------------------ specification SpecEval
\* One validation step: the model's scores and the padded targets of a batch
\* are handed to evaluate with the end and pad indices of the index; the
\* caller folds a returned EvalItem into its running total.

\* The index of the run: one source and one target symbol.
EvalIndex == IndexNoFeatures(<<"a">>, <<"a">>)

\* end_idx, pad_idx and output_size as train.py takes them from the index.
EvalEndIdx == EndIdx(EvalIndex)
EvalPadIdx == PadIdx(EvalIndex)
VocabSize == target_vocab_size(EvalIndex)

\* The indices the model is made to predict: pad, end and the target symbol.
EvalSyms ==
    {EvalPadIdx, EvalEndIdx, SymbolMapIndex(EvalIndex.target_map, "a", None)}

\* A score tensor whose maximum at every timestep is at the index P holds.
OneHot(P) ==
    [b \in 1..Len(P) |->
        [v \in 1..VocabSize |->
            [t \in 1..Len(P[b]) |-> IF P[b][t] = v - 1 THEN 1 ELSE 0]]]

\* A score tensor with equal scores everywhere.
Flat(b, t) == [i \in 1..b |-> [v \in 1..VocabSize |-> [k \in 1..t |-> 0]]]

ScoreTensors ==
    {OneHot(P) : P \in Tensors(EvalSyms, MaxCells)}
        \cup {Flat(sh[1], sh[2]) : sh \in Shapes(MaxCells)}

\* Padded target rows of length n: symbols that are neither end nor pad, the
\* end marker, then pad.
TargetRows(n) ==
    {r \in Rows(EvalSyms, n) :
        \E k \in 1..n :
            /\ r[k] = EvalEndIdx
            /\ \A j \in 1..(k - 1) : r[j] \notin {EvalEndIdx, EvalPadIdx}
            /\ \A j \in (k + 1)..n : r[j] = EvalPadIdx}

GoldTensors ==
    UNION {[1..sh[1] -> TargetRows(sh[2])] : sh \in Shapes(MaxCells)}

InitEval ==
    /\ pc = "start"
    /\ scores \in ScoreTensors
    /\ golds \in GoldTensors
    /\ end_idx = EvalEndIdx
    /\ pad_idx = EvalPadIdx
    /\ predictions = <<>>
    /\ raised = "none"
    /\ x0 = <<>>
    /\ out1 = <<>>
    /\ item = <<>>
    /\ message = <<>>
    /\ acc = EvalItem(0, 0)
    /\ source_vocabulary = <<>>
    /\ features_vocabulary = <<>>
    /\ target_vocabulary = <<>>
    /\ index = <<>>
    /\ EpochIdle /\ StoreIdle /\ LossIdle /\ CallIdle

\* The call of Evaluator.evaluate in validation_step.
Evaluate ==
    /\ pc = "start"
    /\ \E r \in {evaluate(scores, golds, end_idx, pad_idx)} :
           /\ raised' = r.raised
           /\ message' = r.message
           /\ x0' = r.argmax
           /\ predictions' = r.predictions
           /\ item' = r.item
           /\ scores' = r.scores
           /\ golds' = r.golds
           /\ pc' = IF r.raised = "none" THEN "returned" ELSE "raised"
    /\ UNCHANGED <<end_idx, pad_idx, out1, acc>>
    /\ UNCHANGED <<indexVars, laterVars>>
    /\ UNCHANGED callVars

\* The caller adds the returned item to its total.
Fold ==
    /\ pc = "returned"
    /\ acc' = EvalItemAdd(acc, item[1])
    /\ pc' = "folded"
    /\ UNCHANGED <<scores, golds, end_idx, pad_idx, predictions, raised,
                   x0, out1, item, message>>
    /\ UNCHANGED <<indexVars, laterVars>>
    /\ UNCHANGED callVars

NextEval == Evaluate \/ Fold

SpecEval == InitEval /\ [][NextEval]_vars

\* ------------------------------------------------ specification SpecIndex
\* Data preparation hands vocabularies to one of the two index classes.
\* Symbols of the source and target data; the data may hold a reserved string.
VocabSyms == {"a", "b", PAD, END}
\* Symbols of the feature column.
FeatureSyms == {"f", "g"}

Vocabularies(S, n) == UNION {[1..k -> S] : k \in 0..n}

InitIndex ==
    /\ pc = "start"
    /\ source_vocabulary \in Vocabularies(VocabSyms, MaxVocab)
    /\ features_vocabulary \in Vocabularies(FeatureSyms, MaxVocab)
    /\ target_vocabulary \in Vocabularies(VocabSyms, 1)
    /\ index = <<>>
    /\ predictions = <<>>
    /\ end_idx = 0
    /\ pad_idx = 0
    /\ raised = "none"
    /\ x0 = <<>>
    /\ out1 = <<>>
    /\ scores = <<>>
    /\ golds = <<>>
    /\ item = <<>>
    /\ message = <<>>
    /\ acc = EvalItem(0, 0)
    /\ EpochIdle /\ StoreIdle /\ LossIdle /\ CallIdle

\* The class of the object the constructors built.
ClassOf(ix) ==
    IF "features_idx" \in DOMAIN ix THEN "IndexFeatures" ELSE "IndexNoFeatures"

NewIndexNoFeatures ==
    /\ pc = "start"
    /\ index' = IndexNoFeatures(source_vocabulary, target_vocabulary)
    /\ pc' = "built"
    /\ UNCHANGED <<source_vocabulary, features_vocabulary, target_vocabulary>>
    /\ UNCHANGED <<predictions, end_idx, pad_idx, raised, x0, out1, evalVars>>
    /\ UNCHANGED laterVars
    /\ UNCHANGED callVars

NewIndexFeatures ==
    /\ pc = "start"
    /\ index' = IndexFeatures(source_vocabulary, features_vocabulary,
                              target_vocabulary)
    /\ pc' = "built"
    /\ UNCHANGED <<source_vocabulary, features_vocabulary, target_vocabulary>>
    /\ UNCHANGED <<predictions, end_idx, pad_idx, raised, x0, out1, evalVars>>
    /\ UNCHANGED laterVars
    /\ UNCHANGED callVars

\* train_set.index.write(index) at the end of training.
Write ==
    /\ pc = "built"
    /\ file' = PickleDump(index)
    /\ pc' = "written"
    /\ UNCHANGED <<loaded, probe, found>>
    /\ UNCHANGED indexVars
    /\ UNCHANGED <<predictions, end_idx, pad_idx, raised, x0, out1, evalVars>>
    /\ UNCHANGED <<epochVars, lossVars>>
    /\ UNCHANGED callVars

\* cls.read(path) of the file written, for one of the index classes.
Read ==
    /\ pc = "written"
    /\ \E cls \in IndexClasses : loaded' = <<BaseIndexRead(cls, file)>>
    /\ pc' = "read"
    /\ UNCHANGED <<file, probe, found>>
    /\ UNCHANGED indexVars
    /\ UNCHANGED <<predictions, end_idx, pad_idx, raised, x0, out1, evalVars>>
    /\ UNCHANGED <<epochVars, lossVars>>
    /\ UNCHANGED callVars

\* index.source_map.symbol(i) for an integer i around the valid range.
Symbol ==
    /\ pc = "built"
    /\ LET n == SymbolMapLen(index.source_map)
       IN  \E i \in (0 - (n + 1))..n :
               /\ probe' = i
               /\ found' = <<SymbolMapSymbol(index.source_map, i)>>
    /\ pc' = "looked"
    /\ UNCHANGED <<file, loaded>>
    /\ UNCHANGED indexVars
    /\ UNCHANGED <<predictions, end_idx, pad_idx, raised, x0, out1, evalVars>>
    /\ UNCHANGED <<epochVars, lossVars>>
    /\ UNCHANGED callVars

NextIndex == NewIndexNoFeatures \/ NewIndexFeatures \/ Write \/ Read \/ Symbol

SpecIndex == InitIndex /\ [][NextIndex]_vars

\* ------------------------------------------------------- EvalItem arithmetic
\* The parts of the state used by the other specifications, as constructed.
FinIdle ==
    /\ predictions = <<>>
    /\ end_idx = 0
    /\ pad_idx = 0
    /\ raised = "none"
    /\ x0 = <<>>
    /\ out1 = <<>>

EvalIdle ==
    /\ scores = <<>>
    /\ golds = <<>>
    /\ item = <<>>
    /\ message = <<>>
    /\ acc = EvalItem(0, 0)

IndexIdle ==
    /\ source_vocabulary = <<>>
    /\ features_vocabulary = <<>>
    /\ target_vocabulary = <<>>
    /\ index = <<>>

\* The EvalItems with both fields in 0..MaxCount.
EvalItems == {EvalItem(nc, np) : nc \in 0..MaxCount, np \in 0..MaxCount}

\* Three EvalItems a, b, c are given as outputs[1], outputs[2], outputs[3].
InitAlg ==
    /\ pc = "start"
    /\ outputs \in [1..3 -> EvalItems]
    /\ epoch_eval = <<>>
    /\ val_accuracy = <<>>
    /\ rows_seen = 0
    /\ dataset = <<>>
    /\ FinIdle /\ EvalIdle /\ IndexIdle /\ StoreIdle /\ LossIdle /\ CallIdle

\* The sums of a, b, c and the zero item, through __add__ and __radd__.
Add ==
    /\ pc = "start"
    /\ LET a == outputs[1]
           b == outputs[2]
           c == outputs[3]
       IN  epoch_eval' =
               <<[ab |-> EvalItemAdd(a, b),
                  ba |-> EvalItemAdd(b, a),
                  ab_c |-> EvalItemAdd(EvalItemAdd(a, b), c),
                  a_bc |-> EvalItemAdd(a, EvalItemAdd(b, c)),
                  a_zero |-> EvalItemAdd(a, EvalItem(0, 0)),
                  zero_a |-> EvalItemRAdd(a, 0)]>>
    /\ pc' = "added"
    /\ UNCHANGED <<outputs, val_accuracy, rows_seen, dataset>>
    /\ UNCHANGED <<predictions, end_idx, pad_idx, raised, x0, out1>>
    /\ UNCHANGED <<evalVars, indexVars, storeVars, lossVars>>
    /\ UNCHANGED callVars

\* a.accuracy is requested.
RequestAccuracy ==
    /\ pc = "added"
    /\ val_accuracy' = <<Accuracy(outputs[1])>>
    /\ pc' = "asked"
    /\ UNCHANGED <<outputs, epoch_eval, rows_seen, dataset>>
    /\ UNCHANGED <<predictions, end_idx, pad_idx, raised, x0, out1>>
    /\ UNCHANGED <<evalVars, indexVars, storeVars, lossVars>>
    /\ UNCHANGED callVars

NextAlg == Add \/ RequestAccuracy

SpecAlg == InitAlg /\ [][NextAlg]_vars

\* --------------------------------------------------------- get_loss_func
\* Floating-point values: a finite value is kept exact as the fraction
\* num / den, den > 0; the other kinds are the IEEE infinities and NaN.
Fin(n, d) == [kind |-> "fin", num |-> n, den |-> d]
PosInf == [kind |-> "inf", num |-> 0, den |-> 1]
NegInf == [kind |-> "-inf", num |-> 0, den |-> 1]
NaN == [kind |-> "nan", num |-> 0, den |-> 1]

\* -x.
Neg(x) ==
    IF x.kind = "fin" THEN Fin(0 - x.num, x.den)
    ELSE IF x.kind = "inf" THEN NegInf
    ELSE IF x.kind = "-inf" THEN PosInf
    ELSE NaN

\* x + y: NaN is absorbing and inf + -inf is NaN.
AddV(x, y) ==
    IF x.kind = "nan" \/ y.kind = "nan" THEN NaN
    ELSE IF x.kind = "fin" /\ y.kind = "fin"
    THEN Fin(x.num * y.den + y.num * x.den, x.den * y.den)
    ELSE IF x.kind = "fin" THEN y
    ELSE IF y.kind = "fin" THEN x
    ELSE IF x.kind = y.kind THEN x
    ELSE NaN

\* q * x for a finite q = <<a, b>>, b > 0: 0 * inf is NaN.
MulQ(q, x) ==
    IF x.kind = "nan" THEN NaN
    ELSE IF x.kind = "fin" THEN Fin(q[1] * x.num, q[2] * x.den)
    ELSE IF q[1] = 0 THEN NaN
    ELSE IF q[1] > 0 THEN x
    ELSE Neg(x)

\* x / k for a count k >= 0: 0 / 0 is NaN, nonzero / 0 an infinity.
DivInt(x, k) ==
    IF x.kind = "nan" THEN NaN
    ELSE IF k > 0
    THEN (IF x.kind = "fin" THEN Fin(x.num, x.den * k) ELSE x)
    ELSE IF x.kind # "fin" THEN x
    ELSE IF x.num = 0 THEN NaN
    ELSE IF x.num > 0 THEN PosInf
    ELSE NegInf

RECURSIVE SumV(_)
SumV(l) == IF l = <<>> THEN Fin(0, 1) ELSE AddV(Head(l), SumV(Tail(l)))

\* tensor.mean() of a one-dimensional selection: sum / count, NaN when empty.
MeanV(l) == DivInt(SumV(l), Len(l))

\* predictions.transpose(1, 2).reshape(-1, output_size) of a
\* B x output_size x T tensor: row (b, t), b-major, holds the output_size
\* values of position t of batch element b.
FlatPredictions(lp) ==
    LET T == Len(lp[1][1])
    IN  [k \in 1..(Len(lp) * T) |->
            [v \in 1..Len(lp[1]) |->
                lp[((k - 1) \div T) + 1][v][((k - 1) % T) + 1]]]

\* target.view(-1, 1): the labels in the same b-major order.
FlatTarget(tg) ==
    LET T == Len(tg[1])
    IN  [k \in 1..(Len(tg) * T) |-> tg[((k - 1) \div T) + 1][((k - 1) % T) + 1]]

\* nn.NLLLoss(ignore_index=pad_idx, reduction="mean"): the sum of
\* -predictions[b, target[b, t], t] over the positions whose target is not
\* pad_idx, divided by their number.
NLLLoss(lp, tg, p) ==
    LET rows == FlatPredictions(lp)
        labels == FlatTarget(tg)
        kept == SelectSeq([k \in 1..Len(labels) |-> k],
                          LAMBDA k : labels[k] # p)
    IN  DivInt(SumV([j \in 1..Len(kept) |->
                        Neg(rows[kept[j]][labels[kept[j]] + 1])]),
               Len(kept))

\* A smoothed loss whose means run over every position, pad included.
SmoothNLLLossMutNoMask(lp, tg, p, ls, output_size) ==
    LET rows == FlatPredictions(lp)
        labels == FlatTarget(tg)
        kept == [k \in 1..Len(labels) |-> k]
        nll_loss == Neg(MeanV([j \in 1..Len(kept) |->
                                 rows[kept[j]][labels[kept[j]] + 1]]))
        smooth_loss == DivInt(Neg(MeanV([j \in 1..Len(kept) |->
                                           SumV(rows[kept[j]])])),
                              output_size)
    IN  AddV(MulQ(<<ls[2] - ls[1], ls[2]>>, nll_loss), MulQ(ls, smooth_loss))

\* _smooth_nllloss with label_smoothing ls = <<a, b>>: non_pad_mask selects
\* the rows whose label is not pad_idx; nll_loss is minus the mean of the
\* gathered values, smooth_loss minus the mean of the row sums, divided by
\* output_size; loss = (1.0 - ls) * nll_loss + ls * smooth_loss.
SmoothNLLLoss(lp, tg, p, ls, output_size) ==
    LET rows == FlatPredictions(lp)
        labels == FlatTarget(tg)
        kept == SelectSeq([k \in 1..Len(labels) |-> k],
                          LAMBDA k : labels[k] # p)
        nll_loss == Neg(MeanV([j \in 1..Len(kept) |->
                                 rows[kept[j]][labels[kept[j]] + 1]]))
        smooth_loss == DivInt(Neg(MeanV([j \in 1..Len(kept) |->
                                           SumV(rows[kept[j]])])),
                              output_size)
    IN  AddV(MulQ(<<ls[2] - ls[1], ls[2]>>, nll_loss), MulQ(ls, smooth_loss))

\* ------------------------------------------------ specification SpecLoss
\* The loss of one batch under the two loss functions get_loss_func builds:
\* the plain one (label_smoothing None) and the smoothed one, on the same
\* log-probabilities and targets.

\* The labels of the targets: the target symbol and pad.
LossLabels == {SymbolMapIndex(EvalIndex.target_map, "a", None), EvalPadIdx}

\* output_size as get_model passes it: the target_vocab_size of the index.
LossOutputSize == target_vocab_size(EvalIndex)

\* The log-probabilities of a cell: log(1/e), log(1/e^2) and log(0).
LogProbs == {Fin(-1, 1), Fin(-2, 1), NegInf}

\* The log-probabilities of one position over the output_size symbols: any
\* of LogProbs for the two labels, log(1/e^2) for every other symbol.
LogProbRows ==
    {[v \in 1..LossOutputSize |->
         IF v - 1 = SymbolMapIndex(EvalIndex.target_map, "a", None) THEN x
         ELSE IF v - 1 = EvalPadIdx THEN y
         ELSE Fin(-2, 1)] : x \in LogProbs, y \in LogProbs}

\* The B x output_size x T tensors whose positions are rows of LogProbRows.
LogProbTensors(B, T) ==
    {[b \in 1..B |-> [v \in 1..LossOutputSize |-> [t \in 1..T |-> c[b][t][v]]]] :
        c \in [1..B -> [1..T -> LogProbRows]]}

\* The label smoothing coefficients: 0 and 1/2.
Smoothings == {<<0, 1>>, <<1, 2>>}

\* Both losses of a batch.
Losses(lp, tg, p, ls) ==
    [plain |-> NLLLoss(lp, tg, p),
     smooth |-> SmoothNLLLoss(lp, tg, p, ls, LossOutputSize)]

InitLoss ==
    /\ pc = "start"
    /\ \E sh \in Shapes(MaxLossCells) :
           /\ logp \in LogProbTensors(sh[1], sh[2])
           /\ tgt \in [1..sh[1] -> [1..sh[2] -> LossLabels]]
    /\ smoothing \in Smoothings
    /\ loss = <<>>
    /\ predictions = <<>>
    /\ end_idx = EvalEndIdx
    /\ pad_idx = EvalPadIdx
    /\ raised = "none"
    /\ x0 = <<>>
    /\ out1 = <<>>
    /\ EvalIdle /\ IndexIdle /\ EpochIdle /\ StoreIdle /\ CallIdle

\* self.loss_func(predictions, target) of a training or validation step.
Loss ==
    /\ pc = "start"
    /\ loss' = Losses(logp, tgt, pad_idx, smoothing)
    /\ pc' = "computed"
    /\ UNCHANGED <<logp, tgt, smoothing>>
    /\ UNCHANGED <<predictions, end_idx, pad_idx, raised, x0, out1>>
    /\ UNCHANGED <<evalVars, indexVars, epochVars, storeVars>>
    /\ UNCHANGED callVars

\* The loss of the same batch with one log-probability at a pad position
\* replaced by another value.
PerturbPad ==
    /\ pc = "computed"
    /\ \E b \in 1..Len(tgt), t \in 1..Len(tgt[1]),
          v \in 1..LossOutputSize, x \in LogProbs :
           /\ tgt[b][t] = pad_idx
           /\ x # logp[b][v][t]
           /\ logp' = [logp EXCEPT ![b][v][t] = x]
           /\ loss' = Losses(logp', tgt, pad_idx, smoothing)
    /\ pc' = "perturbed"
    /\ UNCHANGED <<tgt, smoothing>>
    /\ UNCHANGED <<predictions, end_idx, pad_idx, raised, x0, out1>>
    /\ UNCHANGED <<evalVars, indexVars, epochVars, storeVars>>
    /\ UNCHANGED callVars

\* The loss of the same batch with one more row whose targets are all pad.
AddPadRow ==
    /\ pc = "computed"
    /\ \E x \in LogProbs :
           /\ logp' = Append(logp, [v \in 1..LossOutputSize |->
                                      [t \in 1..Len(tgt[1]) |-> x]])
           /\ tgt' = Append(tgt, [t \in 1..Len(tgt[1]) |-> pad_idx])
           /\ loss' = Losses(logp', tgt', pad_idx, smoothing)
    /\ pc' = "extended"
    /\ UNCHANGED smoothing
    /\ UNCHANGED <<predictions, end_idx, pad_idx, raised, x0, out1>>
    /\ UNCHANGED <<evalVars, indexVars, epochVars, storeVars>>
    /\ UNCHANGED callVars

NextLoss == Loss \/ PerturbPad \/ AddPadRow

SpecLoss == InitLoss /\ [][NextLoss]_vars

\* ------------------------------------------------ specification SpecEpoch
\* A validation epoch: the driver runs validation_step on batches in any
\* order and collects the returned dictionaries in validation_step_outputs;
\* validation_epoch_end averages the losses, folds the EvalItems with sum()
\* and asks for the accuracy.

\* A fold from the first item only: the start value swallows the rest.
RECURSIVE SumFromMutKeep(_, _)
SumFromMutKeep(total, l) ==
    IF l = <<>> THEN total ELSE SumFromMutKeep(total, Tail(l))

\* The loop of sum(): total = total + item for the remaining items, each
\* through EvalItem.__add__.
RECURSIVE SumFrom(_, _)
SumFrom(total, l) ==
    IF l = <<>> THEN total ELSE SumFrom(EvalItemAdd(total, Head(l)), Tail(l))

\* sum(items): starts from the integer 0; 0 + items[0] is answered by
\* EvalItem.__radd__; an empty iterable leaves the integer 0.
PySum(l) ==
    IF l = <<>> THEN 0 ELSE SumFrom(EvalItemRAdd(Head(l), 0), Tail(l))

\* The shapes B x T of the batches of a validation step.
StepShapes == {<<1, 2>>, <<2, 2>>}

\* The indices the model scores highest in a step: end and the target symbol.
StepSyms == {EvalEndIdx, SymbolMapIndex(EvalIndex.target_map, "a", None)}

\* The scores of a step: for each cell one index of StepSyms scores highest.
StepScores ==
    {OneHot(P) : P \in UNION {[1..sh[1] -> Rows(StepSyms, sh[2])] :
                                 sh \in StepShapes}}

\* The padded targets of a step.
StepGolds == UNION {[1..sh[1] -> TargetRows(sh[2])] : sh \in StepShapes}

\* The scores of the model as a floating-point tensor.
AsFloats(sc) ==
    [b \in 1..Len(sc) |->
        [v \in 1..Len(sc[b]) |->
            [t \in 1..Len(sc[b][v]) |-> Fin(sc[b][v][t], 1)]]]

\* self.loss_func as get_loss_func builds it: nn.NLLLoss when label_smoothing
\* is None (<<>>), _smooth_nllloss otherwise.
loss_func(lp, tg, p, ls, output_size) ==
    IF ls = <<>>
    THEN NLLLoss(lp, tg, p)
    ELSE SmoothNLLLoss(lp, tg, p, ls, output_size)

\* validation_step on a batch whose forward pass gives scores sc and whose
\* padded targets are gs, by a model whose self.dataset is ds.  The first
\* print calls self.dataset.decode_source: with self.dataset None that raises
\* AttributeError before anything else is done.  With a dataset the prints
\* only write to the output stream; then self.eval(), evaluate on
\* self(batch), and the loss of a second self(batch) against the targets.
\* The model is in eval mode and the two forward passes are the same call,
\* so both give sc.  An exception of evaluate leaves the step before any
\* loss is computed.
validation_step(sc, gs, e, p, ls, ds) ==
    IF ds = <<>>
    THEN [raised |-> "AttributeError", output |-> <<>>]
    ELSE LET ev == evaluate(sc, gs, e, p)
         IN  IF ev.raised # "none"
             THEN [raised |-> ev.raised, output |-> <<>>]
             ELSE [raised |-> "none",
                   output |-> <<[val_eval_item |-> ev.item[1],
                                 val_loss |-> loss_func(AsFloats(sc), gs, p,
                                                        ls, VocabSize)]>>]

\* The dataset argument of BaseEncoderDecoder.__init__: None, its default,
\* which is what get_model leaves it at, or a dataset passed by keyword.
Datasets == {<<>>, <<"dataset">>}

\* The values of one key of the step outputs.
Values(outs, key) == [i \in 1..Len(outs) |-> outs[i][key]]

\* The model is built with label_smoothing at its default, None, and with
\* or without a dataset.
InitEpoch ==
    /\ pc = "steps"
    /\ outputs = <<>>
    /\ epoch_eval = <<>>
    /\ val_accuracy = <<>>
    /\ rows_seen = 0
    /\ dataset \in Datasets
    /\ predictions = <<>>
    /\ end_idx = EvalEndIdx
    /\ pad_idx = EvalPadIdx
    /\ raised = "none"
    /\ x0 = <<>>
    /\ out1 = <<>>
    /\ logp = <<>>
    /\ tgt = <<>>
    /\ smoothing = <<>>
    /\ loss = <<>>
    /\ EvalIdle /\ IndexIdle /\ StoreIdle /\ CallIdle

\* One validation_step of the driver: the dictionary it returns, EvalItem
\* and loss, goes into validation_step_outputs.  An exception ends the run.
ValidationStep ==
    /\ pc = "steps"
    /\ Len(outputs) < MaxSteps
    /\ \E sc \in StepScores, gs \in StepGolds :
           \E r \in {validation_step(sc, gs, end_idx, pad_idx, smoothing,
                                    dataset)} :
               IF r.raised = "none"
               THEN /\ outputs' = Append(outputs, r.output[1])
                    /\ rows_seen' = rows_seen + Len(sc)
                    /\ UNCHANGED <<pc, raised>>
               ELSE /\ raised' = r.raised
                    /\ pc' = "raised"
                    /\ UNCHANGED <<outputs, rows_seen>>
    /\ UNCHANGED <<epoch_eval, val_accuracy, dataset>>
    /\ UNCHANGED <<predictions, end_idx, pad_idx, x0, out1>>
    /\ UNCHANGED <<evalVars, indexVars, storeVars, lossVars>>
    /\ UNCHANGED callVars

\* validation_epoch_end: avg_val_loss is the sum of the val_loss values
\* divided by num_steps, which raises ZeroDivisionError (0 / 0 on ints) when
\* there was no step; then epoch_eval is the sum() of the items and its
\* accuracy is read.  loss holds metrics["val_loss"], val_accuracy the
\* outcome of epoch_eval.accuracy.
ValidationEpochEnd ==
    /\ pc = "steps"
    /\ IF Len(outputs) = 0
       THEN /\ raised' = "ZeroDivisionError"
            /\ pc' = "raised"
            /\ UNCHANGED <<epoch_eval, val_accuracy, loss>>
       ELSE LET avg_val_loss == DivInt(SumV(Values(outputs, "val_loss")),
                                       Len(outputs))
                total == PySum(Values(outputs, "val_eval_item"))
                a == Accuracy(total)
            IN  /\ epoch_eval' = <<total>>
                /\ val_accuracy' = <<a>>
                /\ loss' = [val_loss |-> avg_val_loss]
                /\ raised' = a.raised
                /\ pc' = IF a.raised = "none" THEN "ended" ELSE "raised"
    /\ UNCHANGED <<outputs, rows_seen, dataset>>
    /\ UNCHANGED <<predictions, end_idx, pad_idx, x0, out1>>
    /\ UNCHANGED <<evalVars, indexVars, storeVars, logp, tgt, smoothing>>
    /\ UNCHANGED callVars

NextEpoch == ValidationStep \/ ValidationEpochEnd

SpecEpoch == InitEpoch /\ [][NextEpoch]_vars

\* ---------------------------------------------- specification SpecCalls
\* The driver's callers hold the same score tensor and the same padded
\* targets and each calls Evaluator.evaluate on them, up to MaxCalls times.
\* A call advances one line at a time and the lines of the callers'
\* running calls interleave in any order.

Callers == {"a", "b"}

\* The shapes B x T of the tensors the callers share.
CallShapes == {<<1, 2>>, <<2, 1>>, <<2, 2>>}

\* The shared scores: for each cell one index of StepSyms scores highest.
CallScores ==
    {OneHot(P) : P \in UNION {[1..sh[1] -> Rows(StepSyms, sh[2])] :
                                 sh \in CallShapes}}

\* The shared padded targets.
CallGolds == UNION {[1..sh[1] -> TargetRows(sh[2])] : sh \in CallShapes}

\* A caller that is not inside evaluate.
NoFrame == [NewFrame(ScoresRef, GoldsRef) EXCEPT !.pc = "idle"]

InitCalls ==
    /\ pc = "calls"
    /\ heap \in {<<sc, gs>> : sc \in CallScores, gs \in CallGolds}
    /\ frames = [c \in Callers |-> [call |-> NoFrame, results |-> <<>>]]
    /\ end_idx = EvalEndIdx
    /\ pad_idx = EvalPadIdx
    /\ predictions = <<>>
    /\ raised = "none"
    /\ x0 = <<>>
    /\ out1 = <<>>
    /\ EvalIdle /\ IndexIdle /\ EpochIdle /\ StoreIdle /\ LossIdle

\* Caller c calls evaluate on the shared tensors.
Call(c) ==
    /\ frames[c].call.pc = "idle"
    /\ Len(frames[c].results) < MaxCalls
    /\ frames' = [frames EXCEPT ![c].call = NewFrame(ScoresRef, GoldsRef)]
    /\ UNCHANGED heap
    /\ UNCHANGED <<finVars, evalVars, indexVars, laterVars>>

\* The running call of caller c executes its next line.
Advance(c) ==
    /\ frames[c].call.pc \notin {"idle", "returned", "raised"}
    /\ \E s \in {Step(heap, frames[c].call, end_idx, pad_idx)} :
           /\ heap' = s.heap
           /\ frames' = [frames EXCEPT ![c].call = s.frame]
    /\ UNCHANGED <<finVars, evalVars, indexVars, laterVars>>

\* The call of caller c returns or raises: the caller keeps the outcome, the
\* frame is gone, and so is every storage only the frame referred to.
Return(c) ==
    /\ frames[c].call.pc \in {"returned", "raised"}
    /\ LET f    == frames[c].call
           kept == Referenced(NoFrame) \cup
                       UNION {Referenced(frames[d].call) : d \in Callers \ {c}}
       IN  /\ heap' = Free(heap, Referenced(f) \ kept)
           /\ frames' = [frames EXCEPT
                  ![c].call = NoFrame,
                  ![c].results = Append(@, [raised |-> f.raised,
                                            item |-> f.item])]
    /\ UNCHANGED <<finVars, evalVars, indexVars, laterVars>>

NextCalls == \E c \in Callers : Call(c) \/ Advance(c) \/ Return(c)

SpecCalls == InitCalls /\ [][NextCalls]_vars

\* ---------------------------------------------- claims on finalize_predictions
\* p is the 0-based position of the first end marker of row x.
IsFirstEnd(x, e, p) ==
    /\ p \in 0..(Len(x) - 1)
    /\ x[p + 1] = e
    /\ \A q \in 0..(p - 1) : x[q + 1] # e

HasEnd(x, e) == \E p \in 0..(Len(x) - 1) : x[p + 1] = e

\* C2: in a batch of two or more rows, a row whose first end marker is at
\* position p, 1 <= p <= L-2, comes out equal to the input at positions 0..p
\* and equal to pad_idx at positions p+1..L-1.
C2_PrefixKeptRestPad ==
    (pc = "once" /\ Len(x0) >= 2) =>
        \A i \in 1..Len(x0) : \A p \in 1..(Len(x0[i]) - 2) :
            IsFirstEnd(x0[i], end_idx, p) =>
                /\ raised = "none"
                /\ Len(predictions[i]) = Len(x0[i])
                /\ \A k \in 0..p : predictions[i][k + 1] = x0[i][k + 1]
                /\ \A k \in (p + 1)..(Len(x0[i]) - 1) :
                       predictions[i][k + 1] = pad_idx

\* A two-row batch was finalized in which a row had its first end marker at
\* position 1 of 3, followed by a symbol that is not pad_idx, and was rewritten.
C2_Witness ==
    /\ pc = "once"
    /\ Len(x0) >= 2
    /\ end_idx # pad_idx
    /\ \E i \in 1..Len(x0) :
        /\ Len(x0[i]) = 3
        /\ IsFirstEnd(x0[i], end_idx, 1)
        /\ x0[i][3] # pad_idx
        /\ predictions[i] # x0[i]
        /\ predictions[i][3] = pad_idx

\* C3 (as claimed): in a batch of two or more rows, a row whose first end
\* marker is at position 0 comes out with the end marker at position 0 and
\* pad_idx at every position 1..L-1.
C3_EndFirstKeepsOne ==
    (pc = "once" /\ Len(x0) >= 2) =>
        \A i \in 1..Len(x0) :
            IsFirstEnd(x0[i], end_idx, 0) =>
                /\ predictions[i][1] = end_idx
                /\ \A k \in 1..(Len(x0[i]) - 1) : predictions[i][k + 1] = pad_idx

\* C7 (as claimed): for every batch the first application returns a batch,
\* and applying finalize_predictions to that batch returns an equal batch.
C7_Idempotent ==
    /\ (pc \in {"once", "twice"} => raised = "none")
    /\ (pc = "twice" => predictions = out1)

\* C8 (as claimed): the call does not raise, and a row is left unchanged
\* when the batch has one row, or the row has no end marker, or the row's
\* first end marker is at its last position, for every row length.
C8_RowUnchanged ==
    (pc = "once") =>
        \A i \in 1..Len(x0) :
            (\/ Len(x0) = 1
             \/ ~HasEnd(x0[i], end_idx)
             \/ IsFirstEnd(x0[i], end_idx, Len(x0[i]) - 1))
            => (raised = "none" /\ predictions[i] = x0[i])

\* ------------------------------------------------------ claims on evaluate
\* Row i of the finalized predictions, cut to the reference length or
\* continued with pad_idx up to it, equals row i of the reference.
MatchesReference(i) ==
    \A j \in 1..Len(golds[i]) :
        (IF j <= Len(predictions[i]) THEN predictions[i][j] ELSE pad_idx)
            = golds[i][j]

\* Row i of the argmax predictions equals the reference up to and including
\* its first end marker, and the reference is pad_idx after that.
AgreesThroughEnd(i) ==
    \E p \in 0..(Len(golds[i]) - 1) :
        /\ IsFirstEnd(x0[i], end_idx, p)
        /\ \A k \in 0..p : x0[i][k + 1] = golds[i][k + 1]
        /\ \A k \in (p + 1)..(Len(golds[i]) - 1) : golds[i][k + 1] = pad_idx

\* C1 (as claimed): for every batch size, a single row included, every row
\* that agrees with the reference through its first end marker, the reference
\* being pad afterwards, is counted as a match by evaluate.
C1_AfterEndIgnored ==
    (pc = "returned") =>
        /\ item[1].num_predicted = Len(golds)
        /\ item[1].num_correct
               >= Cardinality({i \in 1..Len(golds) : AgreesThroughEnd(i)})

\* C4: evaluate returns num_predicted = batch size and num_correct = the
\* number of rows whose finalized prediction, cut or pad-continued to the
\* reference length, equals the reference; the reference is not altered.
C4_CountsExactMatches ==
    [][(pc = "start" /\ pc' = "returned") =>
          /\ item' = <<EvalItem(
                 Cardinality({i \in 1..Len(golds) : MatchesReference(i)'}),
                 Len(scores))>>
          /\ golds' = golds]_vars

\* A batch of two shorter predicted rows was padded to the reference length
\* and exactly one of the two rows was counted.
C4_Witness ==
    /\ pc = "returned"
    /\ Len(golds) = 2
    /\ Len(predictions[1]) < Len(golds[1])
    /\ item[1] = EvalItem(1, 2)
    /\ MatchesReference(1) # MatchesReference(2)

\* C9 (as claimed): evaluate raises exactly when the batch sizes of the
\* scores and of the reference differ, and then returns no EvalItem and
\* leaves the caller's total as it was.
C9_FailsIffBatchMismatch ==
    [][(pc = "start" /\ pc' # "start") =>
          /\ (raised' # "none") <=> (Len(scores) # Len(golds))
          /\ (raised' # "none") => (item' = <<>> /\ acc' = acc)]_vars

\* C10 (as claimed): the message of the batch size mismatch error contains
\* the decimal numerals of both batch sizes.
C10_MessageHasBothSizes ==
    (raised = "Error") =>
        /\ \E k \in 1..Len(message) : message[k] = ToString(Len(scores))
        /\ \E k \in 1..Len(message) : message[k] = ToString(Len(golds))

\* ------------------------------------------------------ claims on the indexes
IsIndexFeatures == pc # "start" /\ "features_idx" \in DOMAIN index

\* The vocabulary the source SymbolMap of the built index was given.
SourceMapVocabulary ==
    IF IsIndexFeatures
    THEN source_vocabulary \o features_vocabulary
    ELSE source_vocabulary

Occurs(symbol, l) == \E k \in 1..Len(l) : l[k] = symbol

\* The 0-based position of a reserved symbol in SPECIAL.
ReservedPosition(symbol) ==
    CHOOSE i \in 0..(Len(SPECIAL) - 1) : SPECIAL[i + 1] = symbol

\* C5 (as claimed): features_idx of an IndexFeatures equals the
\* source_vocab_size of an IndexNoFeatures built from the source vocabulary
\* alone, and features_vocab_size equals the size of the feature vocabulary.
C5_FeaturesOffset ==
    IsIndexFeatures =>
        /\ index.features_idx
               = source_vocab_size(IndexNoFeatures(source_vocabulary,
                                                   target_vocabulary))
        /\ features_vocab_size(index) = Len(features_vocabulary)

\* C6 (as claimed): for any source vocabulary, pad_idx, start_idx, end_idx,
\* unk_idx and mask_idx are pairwise distinct and each is the position of
\* its symbol in SPECIAL.
C6_ReservedIndices ==
    (pc = "built") =>
        /\ Cardinality({PadIdx(index), StartIdx(index), EndIdx(index),
                        UnkIdx(index), MaskIdx(index)}) = 5
        /\ PadIdx(index) = ReservedPosition(PAD)
        /\ StartIdx(index) = ReservedPosition(START)
        /\ EndIdx(index) = ReservedPosition(END)
        /\ UnkIdx(index) = ReservedPosition(UNK)
        /\ MaskIdx(index) = ReservedPosition(MASK)

\* C6 (amended): the five accessors are pairwise distinct for any
\* vocabulary, and each is the position of its symbol in SPECIAL whenever
\* that symbol does not occur in the vocabulary given to the source map.
C6_ReservedIndicesUnlessShadowed ==
    (pc = "built") =>
        /\ Cardinality({PadIdx(index), StartIdx(index), EndIdx(index),
                        UnkIdx(index), MaskIdx(index)}) = 5
        /\ ~Occurs(PAD, SourceMapVocabulary)
               => PadIdx(index) = ReservedPosition(PAD)
        /\ ~Occurs(START, SourceMapVocabulary)
               => StartIdx(index) = ReservedPosition(START)
        /\ ~Occurs(END, SourceMapVocabulary)
               => EndIdx(index) = ReservedPosition(END)
        /\ ~Occurs(UNK, SourceMapVocabulary)
               => UnkIdx(index) = ReservedPosition(UNK)
        /\ ~Occurs(MASK, SourceMapVocabulary)
               => MaskIdx(index) = ReservedPosition(MASK)

\* An index was built from a source vocabulary that holds the pad symbol
\* but not the end symbol: end_idx is END's reserved position, pad_idx is not
\* PAD's.
C6_Witness ==
    /\ pc = "built"
    /\ Occurs(PAD, SourceMapVocabulary)
    /\ ~Occurs(END, SourceMapVocabulary)
    /\ Occurs("a", SourceMapVocabulary)
    /\ EndIdx(index) = ReservedPosition(END)
    /\ PadIdx(index) >= Len(SPECIAL)

\* --------------------------------------------------------- claims on EvalItem
\* C11: EvalItem addition sums num_correct and num_predicted field by field,
\* and for all EvalItems a, b, c: a + b = b + a, (a + b) + c = a + (b + c)
\* and a + zero = a.
C11_AddIsCommutativeMonoid ==
    (pc \in {"added", "asked"}) =>
        LET a == outputs[1]
            b == outputs[2]
            r == epoch_eval[1]
        IN  /\ r.ab.num_correct = a.num_correct + b.num_correct
            /\ r.ab.num_predicted = a.num_predicted + b.num_predicted
            /\ r.ab = r.ba
            /\ r.ab_c = r.a_bc
            /\ r.a_zero = a
            /\ r.zero_a = a

\* Three pairwise different items with different fields have been added.
C11_Witness ==
    /\ pc = "added"
    /\ outputs[1] # outputs[2]
    /\ outputs[2] # outputs[3]
    /\ outputs[1] # outputs[3]
    /\ outputs[1].num_predicted # outputs[2].num_predicted
    /\ epoch_eval[1].ab_c.num_predicted > 0

\* C13: accuracy requested on an EvalItem with num_predicted = 0 raises, and
\* yields no value, whatever num_correct is.
C13_AccuracyOfEmptyRaises ==
    (pc = "asked" /\ outputs[1].num_predicted = 0) =>
        /\ val_accuracy[1].raised = "ZeroDivisionError"
        /\ val_accuracy[1].value = <<>>

\* Accuracy was requested on an item with nothing predicted and a nonzero
\* num_correct.
C13_Witness ==
    /\ pc = "asked"
    /\ outputs[1].num_predicted = 0
    /\ outputs[1].num_correct > 0
    /\ val_accuracy # <<>>

\* --------------------------------------------------- claims on the epoch total
\* The items of l in the order given by the permutation f of its positions.
Reordered(l, f) == [i \in 1..Len(l) |-> l[f[i]]]

RECURSIVE FieldSum(_, _)
FieldSum(l, field) ==
    IF l = <<>> THEN 0 ELSE Head(l)[field] + FieldSum(Tail(l), field)

\* C12: the epoch total that sum() computes from the per-step EvalItems is
\* the same for every order of the items, and its fields are the sums of the
\* per-step num_correct and num_predicted values.
C12_TotalIsOrderIndependent ==
    (pc = "ended") =>
        LET items == Values(outputs, "val_eval_item")
        IN  /\ \A f \in Permutations(1..Len(items)) :
                   PySum(Reordered(items, f)) = epoch_eval[1]
            /\ epoch_eval[1] = EvalItem(FieldSum(items, "num_correct"),
                                        FieldSum(items, "num_predicted"))

\* An epoch of three steps with three different items has been totalled.
C12_Witness ==
    /\ pc = "ended"
    /\ Len(outputs) = 3
    /\ outputs[1].val_eval_item # outputs[2].val_eval_item
    /\ outputs[2].val_eval_item # outputs[3].val_eval_item
    /\ outputs[1].val_eval_item # outputs[3].val_eval_item
    /\ epoch_eval[1].num_correct > 0

\* C20: after successful evaluate calls whose items are accumulated from
\* zero, the total has 0 <= num_correct <= num_predicted, num_predicted is
\* the number of rows evaluated, and the accuracy is defined and in [0, 1].
C20_TotalWithinRows ==
    (pc = "ended") =>
        /\ 0 <= epoch_eval[1].num_correct
        /\ epoch_eval[1].num_correct <= epoch_eval[1].num_predicted
        /\ epoch_eval[1].num_predicted = rows_seen
        /\ val_accuracy[1].raised = "none"
        /\ 0 <= val_accuracy[1].value[1]
        /\ val_accuracy[1].value[1] <= val_accuracy[1].value[2]
        /\ val_accuracy[1].value[2] > 0

\* Three steps with batches of different sizes were totalled, some rows
\* correct and some not.
C20_Witness ==
    /\ pc = "ended"
    /\ Len(outputs) = 3
    /\ \E i, j \in 1..3 :
           outputs[i].val_eval_item.num_predicted
               # outputs[j].val_eval_item.num_predicted
    /\ 0 < epoch_eval[1].num_correct
    /\ epoch_eval[1].num_correct < epoch_eval[1].num_predicted

\* ------------------------------------------------ claims on write, read, symbol
\* The symbols of the vocabularies the index was built from, and the reserved
\* ones.
OriginalKeys ==
    {source_vocabulary[k] : k \in 1..Len(source_vocabulary)}
        \cup {features_vocabulary[k] : k \in 1..Len(features_vocabulary)}
        \cup {target_vocabulary[k] : k \in 1..Len(target_vocabulary)}
        \cup {SPECIAL[k] : k \in 1..Len(SPECIAL)}

\* C14: an index written with write and read back with read of its own class
\* answers every accessor and every symbol() and index() lookup of the
\* original vocabularies as the original does, for IndexNoFeatures and for
\* IndexFeatures.
C14_RoundTrip ==
    (pc = "read" /\ loaded[1].cls = ClassOf(index)) =>
        Observe(loaded[1].cls, loaded[1].vars, OriginalKeys)
            = Observe(ClassOf(index), index, OriginalKeys)

\* An IndexFeatures with two source symbols, a feature and a target symbol
\* has been written and read back as an IndexFeatures.
C14_Witness ==
    /\ pc = "read"
    /\ loaded[1].cls = "IndexFeatures"
    /\ ClassOf(index) = "IndexFeatures"
    /\ Len(source_vocabulary) = 2
    /\ source_vocabulary[1] # source_vocabulary[2]
    /\ Len(features_vocabulary) >= 1
    /\ Len(target_vocabulary) = 1
    /\ file # <<>>

\* C15: symbol(index) returns the symbol stored at index when
\* 0 <= index < len(map), and fails with an out-of-range error for every
\* other integer, negative ones included.
C15_SymbolFailsOutsideRange ==
    (pc = "looked") =>
        LET m == index.source_map
        IN  IF 0 <= probe /\ probe < SymbolMapLen(m)
            THEN found[1] = [raised |-> "none",
                             symbol |-> m.index2symbol[probe + 1]]
            ELSE found[1].raised = "IndexError"

\* The vocabulary handed to the source SymbolMap is made of pairwise distinct
\* symbols, none of them reserved.
DistinctUnreserved ==
    LET v == SourceMapVocabulary
    IN  /\ \A j, k \in 1..Len(v) : j # k => v[j] # v[k]
        /\ \A k \in 1..Len(v) : ~Occurs(v[k], SPECIAL)

\* C16: a SymbolMap built from n pairwise distinct symbols, none reserved,
\* has length 7 + n, holds the reserved symbols at 0..6, and index and symbol
\* invert each other: index(symbol(i)) = i for 0 <= i < len and
\* symbol(index(s)) = s for every s of reserved ++ vocabulary.
C16_MapIsBijective ==
    (pc \in {"built", "looked"} /\ DistinctUnreserved) =>
        LET m == index.source_map
            all == SPECIAL \o SourceMapVocabulary
        IN  /\ SymbolMapLen(m) = 7 + Len(SourceMapVocabulary)
            /\ \A i \in 0..6 :
                   SymbolMapSymbol(m, i) = [raised |-> "none",
                                            symbol |-> SPECIAL[i + 1]]
            /\ \A i \in 0..(SymbolMapLen(m) - 1) :
                   /\ SymbolMapSymbol(m, i).raised = "none"
                   /\ SymbolMapIndex(m, SymbolMapSymbol(m, i).symbol, None) = i
            /\ \A k \in 1..Len(all) :
                   SymbolMapSymbol(m, SymbolMapIndex(m, all[k], None))
                       = [raised |-> "none", symbol |-> all[k]]

\* A map of two distinct unreserved symbols has answered symbol() for the
\* position of its last symbol.
C16_Witness ==
    /\ pc = "looked"
    /\ DistinctUnreserved
    /\ Len(SourceMapVocabulary) >= 2
    /\ probe = SymbolMapLen(index.source_map) - 1
    /\ found[1].raised = "none"
    /\ found[1].symbol = SourceMapVocabulary[Len(SourceMapVocabulary)]

\* ----------------------------------------------------------- claims on the loss
\* Two floating-point values are the same value.
Same(x, y) ==
    /\ x.kind = y.kind
    /\ x.kind = "fin" => x.num * y.den = y.num * x.den

HasNonPad == \E b \in 1..Len(tgt), t \in 1..Len(tgt[1]) : tgt[b][t] # pad_idx

\* C17: in plain and in smoothed mode, changing the log-probabilities at a
\* pad position, or adding a row whose targets are all pad, leaves the loss
\* of a batch with at least one non-pad position unchanged.
C17_PadContributesNothing ==
    [][(pc = "computed" /\ HasNonPad) =>
           /\ Same(loss'.plain, loss.plain)
           /\ Same(loss'.smooth, loss.smooth)]_vars

\* A batch with a pad and a non-pad position had a log-probability at the pad
\* position changed; its smoothed loss, with a nonzero coefficient, is finite
\* and not zero.
C17_Witness ==
    /\ pc = "perturbed"
    /\ HasNonPad
    /\ smoothing[1] > 0
    /\ loss.smooth.kind = "fin"
    /\ loss.smooth.num # 0
    /\ loss.plain.kind = "fin"

\* C18 (as claimed): with label_smoothing 0 the smoothed loss equals the
\* plain loss on the same log-probabilities and targets.
C18_ZeroSmoothingIsPlain ==
    (pc # "start" /\ smoothing[1] = 0) => Same(loss.smooth, loss.plain)

\* ------------------------------------------------- claims on evaluate's frame
\* The outcomes of the calls that have returned or raised so far.
Outcomes ==
    UNION {{frames[c].results[k] : k \in 1..Len(frames[c].results)} :
              c \in Callers}

\* The outcome of one call run alone on the shared tensors.
AloneOutcome ==
    LET r == evaluate(heap[ScoresRef.storage], heap[GoldsRef.storage],
                      end_idx, pad_idx)
    IN  [raised |-> r.raised, item |-> r.item]

\* C19: no line of any call of evaluate changes the score tensor or the
\* targets the callers passed, whether the call returns or raises, and
\* every call on them, repeated by one caller or interleaved with the call
\* of another, has the outcome of a call run alone: the same EvalItem.
C19_InputsUntouched ==
    [][/\ heap'[ScoresRef.storage] = heap[ScoresRef.storage]
       /\ heap'[GoldsRef.storage] = heap[GoldsRef.storage]
       /\ \A o \in Outcomes' : o = AloneOutcome]_vars

\* Both callers are inside the loop of finalize_predictions at once, each
\* on an index tensor of its own: b has rewritten a row that a has not
\* reached yet, a is in its second call, and its first returned an EvalItem
\* with a correct row.
C19_Witness ==
    /\ frames["a"].call.pc = "loop"
    /\ frames["b"].call.pc = "loop"
    /\ frames["a"].call.i < frames["b"].call.i
    /\ frames["a"].call.predictions.storage
           # frames["b"].call.predictions.storage
    /\ Contents(heap, frames["a"].call.predictions)
           # Contents(heap, frames["b"].call.predictions)
    /\ Len(frames["a"].results) = 1
    /\ frames["a"].results[1].raised = "none"
    /\ frames["a"].results[1].item[1].num_correct > 0

====
